---- MODULE Spec2Model ----
(***************************************************************************)
(* nats-kv-syncd: two agents keep their NATS KV buckets convergent with a  *)
(* Last-Writer-Wins register (Lamport timestamp, nodeId tie-break,         *)
(* tombstones).                                                            *)
(*                                                                         *)
(* Modelled from src/src/nats/kvWatcher.ts (change-watch loop, local-write *)
(* helpers, startup seeding), src/unnamed/part_000 (connection.ts: the KV  *)
(* facade on a JetStream stream) and src/unnamed/part_001 (reconcile.ts:   *)
(* periodic reconciliation with the peer site).                            *)
(* src/crdt/lww.ts, src/crdt/clock.ts, src/crdt/metadataStore.ts and       *)
(* src/nats/replication.ts are not among the sources; wins, versionFromOp, *)
(* tick, observe, the metadata store and the operation applier follow      *)
(* spec.md sections 4.1, 4.2, 3 and 4.5.                                   *)
(*                                                                         *)
(* Strings that are compared with < or > (node ids) are sequences of       *)
(* character codes; values and keys are only compared for equality.        *)
(***************************************************************************)
EXTENDS Integers, Sequences, FiniteSets, TLC

\* ------------------------------------------------------------- bounds
\* Events of the environment over both sites: client writes (out-of-band
\* events, helper calls) and process stops.
MaxEvents == 2

\* ---------------------------------------------------------- constants
NodeA == <<97>>
NodeB == <<98>>
Nodes == {NodeA, NodeB}
\* "": what headers.get gives for a header that is not set; it is falsy for
\* the watch loop's if (origin) and is not replaced by ?? (not null)
NoOrigin == <<>>
NoLamport == -1
Keys == {"x", "y"}
\* what clients write
Values == {"1"}
\* new Uint8Array(), the payload of a tombstone message
EmptyValue == ""
\* null / undefined: the value of a tombstone entry, of a delete operation
NoValue == "(none)"

VARIABLES
    kv,        \* kv[n]: key -> the message stream KV_<bucket> keeps for it
    lastSeq,   \* lastSeq[n]: info.state.last_seq of stream KV_<bucket>
    watchQ,    \* watchQ[n]: messages delivered to the watch loop, not handled yet
    clock,     \* clock[n]: the LogicalClock counter
    meta,      \* meta[n]: the MetadataStore, key -> Version
    phase,     \* phase[n]: "down", "listing" (ctx.kv.keys() of
               \* seedMetadataFromKv), "seeding" (its loop), "running"
    seedKeys,  \* seedKeys[n]: the keys seedMetadataFromKv has still to visit
    scan,      \* scan[n]: the loop of ctx.kv.keys() suspended at a getMessage
    inflight,  \* inflight[n]: helper calls suspended at await ctx.kv.put / delete
    net,       \* operations published on the replication subject
    events,    \* events of the environment so far
    \* history
    best,      \* best[n]: key -> highest-ranked version this process has observed
    seenMax,   \* seenMax[n]: greatest timestamp tick returned or observe was given
    lastTick,  \* lastTick[n]: what the latest tick() returned (0: none yet)
    sent,      \* sent[n]: operations this site has published
    plain,     \* plain[n]: change events without KV-Origin the watcher has handled
    helperCalls, \* helperCalls[n]: localPut / localDelete calls
    kvAtStart, \* kvAtStart[n]: the bucket as it was when the process started
    applied,   \* applied[n]: the operations delivered to the applier, in order
    watching,  \* watching[n]: the for await loop of the watcher has not ended
    publishing, \* publishing[n]: the jsCtx.publish the watch loop is suspended at
    rec        \* rec[n]: the periodic reconciliation of the agent (reconcile.ts)

vars == <<kv, lastSeq, watchQ, clock, meta, phase, seedKeys, scan, inflight,
          net, events, best, seenMax, lastTick, sent, plain, helperCalls,
          kvAtStart, applied, watching, publishing, rec>>

\* ------------------------------------------------------------ helpers
Max(a, b) == IF a >= b THEN a ELSE b

\* f with key k bound to v
Upd(f, k, v) == [x \in (DOMAIN f) \cup {k} |-> IF x = k THEN v ELSE f[x]]

Empty == [x \in {} |-> 0]

\* a > b on JavaScript strings: by code unit, a proper prefix is smaller
RECURSIVE LexGreater(_, _)
LexGreater(a, b) ==
    IF a = <<>> THEN FALSE
    ELSE IF b = <<>> THEN TRUE
    ELSE IF Head(a) # Head(b) THEN Head(a) > Head(b)
    ELSE LexGreater(Tail(a), Tail(b))

\* ------------------------------------------------ crdt/lww.ts (spec 4.2)
versionFromOp(op) ==
    [ts |-> op.ts, nodeId |-> op.nodeId, tombstone |-> (op.op = "delete")]

\* wins with the nodeId tie-break left out
wins_tsOnly(candidate, incumbent) == candidate.ts > incumbent.ts

wins(candidate, incumbent) ==
    \/ candidate.ts > incumbent.ts
    \/ /\ candidate.ts = incumbent.ts
       /\ LexGreater(candidate.nodeId, incumbent.nodeId)

\* ---------------------------------------------- crdt/clock.ts (spec 4.1)
\* tick(): the counter after the increment, which is also what it returns
tick(c) == c + 1
\* an observe that stops one short of the timestamp
observe_short(c, t) == Max(c, t - 1)
\* an observe that leaves the counter alone
observe_keep(c, t) == c
\* observe(t): the counter after observing t
observe(c, t) == Max(c, t)

\* --------------------------------------- crdt/metadataStore.ts (spec 3)
metadataSet(store, key, version) == Upd(store, key, version)

\* ------------------------------------------------ connection.ts: KvLike
\* ts of a stored or delivered message: KV-Lamport when set, else msg.seq
msgTs(m) == IF m.lamport # NoLamport THEN m.lamport ELSE m.seq

\* get(key): null when no message exists for the subject
HasEntry(n, key) == key \in DOMAIN kv[n]
get(n, key) ==
    LET m == kv[n][key]
    IN [value |-> IF m.del THEN NoValue ELSE m.data,
        isTombstone |-> m.del,
        origin |-> m.origin,
        ts |-> msgTs(m),
        revision |-> m.seq]

\* jsm.streams.getMessage(streamName, {seq}): the message of that sequence
\* when the stream still keeps it (max_msgs_per_subject 1: a later message
\* of the subject removed it), else the request rejects
getMessage(n, seq) == {kv[n][k] : k \in {x \in DOMAIN kv[n] : kv[n][x].seq = seq}}

\* keys() is a loop of awaited requests: streams.info, then one getMessage
\* for each sequence 1..last_seq; the bucket may be written between two of
\* them. A scan that is not running:
NoScan == [maxSeq |-> 0, seq |-> 1, keySet |-> <<>>]
\* keys() when streams.info has resolved
keysInfo(n) == [maxSeq |-> lastSeq[n], seq |-> 1, keySet |-> <<>>]
\* keys(): one iteration of its for loop, getMessage(seq) resolved or
\* rejected (the catch ignores it)
keys(n, s) ==
    LET found == {m.key : m \in getMessage(n, s.seq)}
        new == {k \in found : \A j \in 1..Len(s.keySet) : s.keySet[j] # k}
    IN [s EXCEPT !.seq = @ + 1,
                 !.keySet = IF new = {} THEN @
                            ELSE Append(@, CHOOSE k \in new : TRUE)]
\* keys(): an iteration whose getMessage(seq) is rejected by the
\* transport: the catch ignores it, the key of that sequence is not added
keysCatch(s) == [s EXCEPT !.seq = @ + 1]
\* the loop of keys() is over: Array.from(keySet) is returned
keysDone(s) == s.seq > s.maxSeq

\* js.publish on $KV.<bucket>.<key>: the stream keeps the message as the
\* last one of its subject and delivers it to the watcher's consumer, when
\* there is one (deliverNew: only messages published after js.subscribe)
StreamPublish(n, key, del, origin, lamport, data) ==
    LET m == [key |-> key, del |-> del, origin |-> origin,
              lamport |-> lamport, data |-> data, seq |-> lastSeq[n] + 1]
    IN /\ lastSeq' = [lastSeq EXCEPT ![n] = @ + 1]
       /\ kv' = [kv EXCEPT ![n] = Upd(@, key, m)]
       /\ watchQ' = [watchQ EXCEPT ![n] =
                        IF phase[n] = "running" THEN Append(@, m) ELSE @]

\* put(key, value, opts) and delete(key, opts); opts absent: NoOrigin, NoLamport
put(n, key, value, origin, timestamp) ==
    StreamPublish(n, key, FALSE, origin, timestamp, value)
delete(n, key, origin, timestamp) ==
    StreamPublish(n, key, TRUE, origin, timestamp, EmptyValue)

\* ------------------------------------------------------------ history
\* the higher-ranked of an observed version and the best so far
Observed(b, key, version) ==
    IF key \in DOMAIN b /\ ~wins(version, b[key]) THEN b
    ELSE Upd(b, key, version)

\* reconcile.ts of an agent whose periodic reconciliation is not started
NoReconcile ==
    [timer |-> FALSE, cycles |-> <<>>, fires |-> 0, failed |-> 0,
     firesAtFail |-> 0, handled |-> 0, lastHandled |-> {}]

\* --------------------------------------------------------------- Init
Init ==
    /\ kv = [n \in Nodes |-> Empty]
    /\ lastSeq = [n \in Nodes |-> 0]
    /\ watchQ = [n \in Nodes |-> <<>>]
    /\ clock = [n \in Nodes |-> 0]
    /\ meta = [n \in Nodes |-> Empty]
    /\ phase = [n \in Nodes |-> "down"]
    /\ seedKeys = [n \in Nodes |-> <<>>]
    /\ scan = [n \in Nodes |-> NoScan]
    /\ inflight = [n \in Nodes |-> {}]
    /\ net = {}
    /\ events = 0
    /\ best = [n \in Nodes |-> Empty]
    /\ seenMax = [n \in Nodes |-> 0]
    /\ lastTick = [n \in Nodes |-> 0]
    /\ sent = [n \in Nodes |-> 0]
    /\ kvAtStart = [n \in Nodes |-> Empty]
    /\ plain = [n \in Nodes |-> 0]
    /\ helperCalls = [n \in Nodes |-> 0]
    /\ applied = [n \in Nodes |-> <<>>]
    /\ watching = [n \in Nodes |-> FALSE]
    /\ publishing = [n \in Nodes |-> {}]
    /\ rec = [n \in Nodes |-> NoReconcile]

\* ------------------------------------------------- process start / stop
\* startLocalWatcher is entered: seedMetadataFromKv calls ctx.kv.keys(),
\* whose streams.info resolves; an empty stream has nothing to scan
Start(n) ==
    /\ phase[n] = "down"
    /\ IF keysDone(keysInfo(n))
       THEN /\ phase' = [phase EXCEPT ![n] = "seeding"]
            /\ scan' = scan
       ELSE /\ phase' = [phase EXCEPT ![n] = "listing"]
            /\ scan' = [scan EXCEPT ![n] = keysInfo(n)]
    /\ kvAtStart' = [kvAtStart EXCEPT ![n] = kv[n]]
    /\ UNCHANGED <<kv, lastSeq, watchQ, clock, meta, seedKeys, inflight, net,
                   events, best, seenMax, lastTick, sent, plain, helperCalls,
                   applied, watching, publishing, rec>>

\* const keys = await ctx.kv.keys(): the next getMessage of the scan; after
\* the last one keys() returns and the loop of seedMetadataFromKv begins
seedKeysScan(n) ==
    /\ phase[n] = "listing"
    /\ LET s == keys(n, scan[n])
       IN IF keysDone(s)
          THEN /\ phase' = [phase EXCEPT ![n] = "seeding"]
               /\ seedKeys' = [seedKeys EXCEPT ![n] = s.keySet]
               /\ scan' = [scan EXCEPT ![n] = NoScan]
          ELSE /\ scan' = [scan EXCEPT ![n] = s]
               /\ UNCHANGED <<phase, seedKeys>>
    /\ UNCHANGED <<kv, lastSeq, watchQ, clock, meta, inflight, net, events,
                   best, seenMax, lastTick, sent, plain, helperCalls,
                   kvAtStart, applied, watching, publishing, rec>>

\* one iteration of the loop of seedMetadataFromKv after get(key) resolved
\* to entry ({}: null, the key is skipped); entry.origin is never null, so
\* ?? "unknown" leaves it as it is
seedEntry(n, key, entry) ==
    /\ seedKeys' = [seedKeys EXCEPT ![n] = Tail(@)]
    /\ IF entry = {}
       THEN UNCHANGED <<clock, meta, best, seenMax>>
       ELSE LET e == CHOOSE x \in entry : TRUE
                ts == e.ts
                nodeId == e.origin
                version == [ts |-> ts, nodeId |-> nodeId,
                            tombstone |-> e.isTombstone]
            IN /\ clock' = [clock EXCEPT ![n] = observe(@, ts)]
               /\ meta' = [meta EXCEPT ![n] = metadataSet(@, key, version)]
               /\ best' = [best EXCEPT ![n] = Observed(@, key, version)]
               /\ seenMax' = [seenMax EXCEPT ![n] = Max(@, ts)]

\* one iteration of the loop of seedMetadataFromKv: the request of
\* get(key) is answered, with the last message of the key's subject
seedMetadataFromKv(n) ==
    /\ phase[n] = "seeding"
    /\ seedKeys[n] # <<>>
    /\ LET key == Head(seedKeys[n])
       IN seedEntry(n, key, IF HasEntry(n, key) THEN {get(n, key)} ELSE {})
    /\ UNCHANGED <<kv, lastSeq, watchQ, phase, scan, inflight, net, events,
                   lastTick, sent, plain, helperCalls, kvAtStart, applied,
                   watching, publishing, rec>>

\* seeding is over: js.subscribe(subject, opts) with deliverNew, the watch
\* loop starts and the helpers are installed
Subscribe(n) ==
    /\ phase[n] = "seeding"
    /\ seedKeys[n] = <<>>
    /\ phase' = [phase EXCEPT ![n] = "running"]
    /\ watching' = [watching EXCEPT ![n] = TRUE]
    /\ UNCHANGED <<kv, lastSeq, watchQ, clock, meta, seedKeys, scan, inflight, net,
                   events, best, seenMax, lastTick, sent, plain, helperCalls,
                   kvAtStart, applied, publishing, rec>>

\* the process ends: its clock, metadata store, subscription and suspended
\* calls are gone, the bucket and the published operations stay
Stop(n) ==
    /\ phase[n] # "down"
    /\ events < MaxEvents
    /\ events' = events + 1
    /\ phase' = [phase EXCEPT ![n] = "down"]
    /\ clock' = [clock EXCEPT ![n] = 0]
    /\ meta' = [meta EXCEPT ![n] = Empty]
    /\ watchQ' = [watchQ EXCEPT ![n] = <<>>]
    /\ seedKeys' = [seedKeys EXCEPT ![n] = <<>>]
    /\ scan' = [scan EXCEPT ![n] = NoScan]
    /\ inflight' = [inflight EXCEPT ![n] = {}]
    /\ best' = [best EXCEPT ![n] = Empty]
    /\ seenMax' = [seenMax EXCEPT ![n] = 0]
    /\ lastTick' = [lastTick EXCEPT ![n] = 0]
    /\ kvAtStart' = [kvAtStart EXCEPT ![n] = Empty]
    /\ watching' = [watching EXCEPT ![n] = FALSE]
    /\ publishing' = [publishing EXCEPT ![n] = {}]
    /\ rec' = [rec EXCEPT ![n] = NoReconcile]
    /\ UNCHANGED <<kv, lastSeq, net, sent, plain, helperCalls, applied>>

\* ------------------------------------------------- out-of-band writes
\* a client other than the agent (CLI, application) writes the bucket
ForeignPut(n, key, value) ==
    /\ events < MaxEvents
    /\ events' = events + 1
    /\ put(n, key, value, NoOrigin, NoLamport)
    /\ UNCHANGED <<clock, meta, phase, seedKeys, scan, inflight, net, best,
                   seenMax, lastTick, sent, plain, helperCalls, kvAtStart,
                   applied, watching, publishing, rec>>

ForeignDelete(n, key) ==
    /\ events < MaxEvents
    /\ events' = events + 1
    /\ delete(n, key, NoOrigin, NoLamport)
    /\ UNCHANGED <<clock, meta, phase, seedKeys, scan, inflight, net, best,
                   seenMax, lastTick, sent, plain, helperCalls, kvAtStart,
                   applied, watching, publishing, rec>>

\* ------------------------------------------------- kvWatcher.ts: helpers
\* publishOperation(ctx, op)
publishOperation(n, op) ==
    /\ net' = net \cup {op}
    /\ sent' = [sent EXCEPT ![n] = @ + 1]

\* localPut that writes the bucket without provenance
localPut_noProvenance(n, key, value) ==
    /\ phase[n] = "running"
    /\ events < MaxEvents
    /\ events' = events + 1
    /\ LET op == [op |-> "put", key |-> key, value |-> value,
                  ts |-> tick(clock[n]), nodeId |-> n]
       IN /\ clock' = [clock EXCEPT ![n] = tick(@)]
          /\ lastTick' = [lastTick EXCEPT ![n] = op.ts]
          /\ seenMax' = [seenMax EXCEPT ![n] = Max(@, op.ts)]
          /\ put(n, key, value, NoOrigin, NoLamport)
          /\ inflight' = [inflight EXCEPT ![n] = @ \cup {op}]
    /\ helperCalls' = [helperCalls EXCEPT ![n] = @ + 1]
    /\ UNCHANGED <<meta, phase, seedKeys, scan, net, sent, plain, best, kvAtStart,
                   applied, watching, publishing, rec>>

\* localPut up to its await of ctx.kv.put
localPut(n, key, value) ==
    /\ phase[n] = "running"
    /\ events < MaxEvents
    /\ events' = events + 1
    /\ LET op == [op |-> "put", key |-> key, value |-> value,
                  ts |-> tick(clock[n]), nodeId |-> n]
       IN /\ clock' = [clock EXCEPT ![n] = tick(@)]
          /\ lastTick' = [lastTick EXCEPT ![n] = op.ts]
          /\ seenMax' = [seenMax EXCEPT ![n] = Max(@, op.ts)]
          /\ put(n, key, value, n, op.ts)
          /\ inflight' = [inflight EXCEPT ![n] = @ \cup {op}]
    /\ helperCalls' = [helperCalls EXCEPT ![n] = @ + 1]
    /\ UNCHANGED <<meta, phase, seedKeys, scan, net, sent, plain, best, kvAtStart,
                   applied, watching, publishing, rec>>

\* localDelete up to its await of ctx.kv.delete
localDelete(n, key) ==
    /\ phase[n] = "running"
    /\ events < MaxEvents
    /\ events' = events + 1
    /\ LET op == [op |-> "delete", key |-> key, value |-> NoValue,
                  ts |-> tick(clock[n]), nodeId |-> n]
       IN /\ clock' = [clock EXCEPT ![n] = tick(@)]
          /\ lastTick' = [lastTick EXCEPT ![n] = op.ts]
          /\ seenMax' = [seenMax EXCEPT ![n] = Max(@, op.ts)]
          /\ delete(n, key, n, op.ts)
          /\ inflight' = [inflight EXCEPT ![n] = @ \cup {op}]
    /\ helperCalls' = [helperCalls EXCEPT ![n] = @ + 1]
    /\ UNCHANGED <<meta, phase, seedKeys, scan, net, sent, plain, best, kvAtStart,
                   applied, watching, publishing, rec>>

\* a helper resumes after its await: metadataStore.set, publishOperation
localResume(n, op) ==
    /\ op \in inflight[n]
    /\ inflight' = [inflight EXCEPT ![n] = @ \ {op}]
    /\ meta' = [meta EXCEPT ![n] = metadataSet(@, op.key, versionFromOp(op))]
    /\ best' = [best EXCEPT ![n] = Observed(@, op.key, versionFromOp(op))]
    /\ publishOperation(n, op)
    /\ UNCHANGED <<kv, lastSeq, watchQ, clock, phase, seedKeys, scan, events,
                   seenMax, lastTick, plain, helperCalls, kvAtStart, applied,
                   watching, publishing, rec>>

\* ---------------------------------------------- kvWatcher.ts: watch loop
\* the event carries KV-Origin: no publish, clock and metadata updated
watchOrigin(n, msg) ==
    LET ts == msgTs(msg)
        version == [ts |-> ts, nodeId |-> msg.origin, tombstone |-> msg.del]
    IN /\ clock' = [clock EXCEPT ![n] = observe(@, ts)]
       /\ meta' = [meta EXCEPT ![n] = metadataSet(@, msg.key, version)]
       /\ best' = [best EXCEPT ![n] = Observed(@, msg.key, version)]
       /\ seenMax' = [seenMax EXCEPT ![n] = Max(@, ts)]
       /\ UNCHANGED <<net, sent, plain, lastTick>>

\* a foreign branch that stamps the operation with the counter as it is
watchForeign_noTick(n, msg) ==
    LET op == [op |-> IF msg.del THEN "delete" ELSE "put",
               key |-> msg.key,
               value |-> IF msg.del THEN NoValue ELSE msg.data,
               ts |-> clock[n], nodeId |-> n]
    IN /\ clock' = clock
       /\ lastTick' = [lastTick EXCEPT ![n] = op.ts]
       /\ seenMax' = [seenMax EXCEPT ![n] = Max(@, op.ts)]
       /\ meta' = [meta EXCEPT ![n] = metadataSet(@, op.key, versionFromOp(op))]
       /\ best' = [best EXCEPT ![n] = Observed(@, op.key, versionFromOp(op))]
       /\ publishOperation(n, op)
       /\ plain' = [plain EXCEPT ![n] = @ + 1]

\* the event carries no KV-Origin: an operation is minted and published
watchForeign(n, msg) ==
    LET op == [op |-> IF msg.del THEN "delete" ELSE "put",
               key |-> msg.key,
               value |-> IF msg.del THEN NoValue ELSE msg.data,
               ts |-> tick(clock[n]), nodeId |-> n]
    IN /\ clock' = [clock EXCEPT ![n] = tick(@)]
       /\ lastTick' = [lastTick EXCEPT ![n] = op.ts]
       /\ seenMax' = [seenMax EXCEPT ![n] = Max(@, op.ts)]
       /\ meta' = [meta EXCEPT ![n] = metadataSet(@, op.key, versionFromOp(op))]
       /\ best' = [best EXCEPT ![n] = Observed(@, op.key, versionFromOp(op))]
       /\ publishOperation(n, op)
       /\ plain' = [plain EXCEPT ![n] = @ + 1]

\* a watch loop that treats every event as an out-of-band write
WatchEvent_ignoreOrigin(n) ==
    /\ phase[n] = "running"
    /\ watching[n]
    /\ publishing[n] = {}
    /\ watchQ[n] # <<>>
    /\ watchQ' = [watchQ EXCEPT ![n] = Tail(@)]
    /\ watchForeign(n, Head(watchQ[n]))
    /\ UNCHANGED <<kv, lastSeq, phase, seedKeys, scan, inflight, events, helperCalls,
                   kvAtStart, applied, watching, publishing, rec>>

\* one iteration of for await (const msg of sub)
WatchEvent(n) ==
    /\ phase[n] = "running"
    /\ watching[n]
    /\ publishing[n] = {}
    /\ watchQ[n] # <<>>
    /\ watchQ' = [watchQ EXCEPT ![n] = Tail(@)]
    /\ LET msg == Head(watchQ[n])
       IN IF msg.origin # NoOrigin THEN watchOrigin(n, msg)
          ELSE watchForeign(n, msg)
    /\ UNCHANGED <<kv, lastSeq, phase, seedKeys, scan, inflight, events, helperCalls,
                   kvAtStart, applied, watching, publishing, rec>>

\* ------------------------------------- replication.ts (spec 4.5): applier
\* an applier that writes the bucket without the operation's provenance
applyOperation_noStamp(n, op) ==
    LET candidate == versionFromOp(op)
        won == \/ op.key \notin DOMAIN meta[n]
               \/ wins(candidate, meta[n][op.key])
    IN /\ clock' = [clock EXCEPT ![n] = observe(@, op.ts)]
       /\ seenMax' = [seenMax EXCEPT ![n] = Max(@, op.ts)]
       /\ best' = [best EXCEPT ![n] = Observed(@, op.key, candidate)]
       /\ IF won
          THEN /\ IF op.op = "delete"
                  THEN delete(n, op.key, NoOrigin, NoLamport)
                  ELSE put(n, op.key, op.value, NoOrigin, NoLamport)
               /\ meta' = [meta EXCEPT ![n] = metadataSet(@, op.key, candidate)]
          ELSE UNCHANGED <<kv, lastSeq, watchQ, meta>>

\* one inbound operation: observe, compare with the stored version, apply
\* when it wins (an absent version ranks lowest), else discard
applyOperation(n, op) ==
    LET candidate == versionFromOp(op)
        won == \/ op.key \notin DOMAIN meta[n]
               \/ wins(candidate, meta[n][op.key])
    IN /\ clock' = [clock EXCEPT ![n] = observe(@, op.ts)]
       /\ seenMax' = [seenMax EXCEPT ![n] = Max(@, op.ts)]
       /\ best' = [best EXCEPT ![n] = Observed(@, op.key, candidate)]
       /\ IF won
          THEN /\ IF op.op = "delete"
                  THEN delete(n, op.key, op.nodeId, op.ts)
                  ELSE put(n, op.key, op.value, op.nodeId, op.ts)
               /\ meta' = [meta EXCEPT ![n] = metadataSet(@, op.key, candidate)]
          ELSE UNCHANGED <<kv, lastSeq, watchQ, meta>>

\* the transport delivers an operation a peer published on the replication
\* subject: any one, any number of times, in any order
Inbound(n, op) ==
    /\ phase[n] = "running"
    /\ op \in net
    /\ op.nodeId # n
    /\ applyOperation(n, op)
    /\ UNCHANGED <<phase, seedKeys, scan, inflight, net, events, lastTick, sent,
                   plain, helperCalls, kvAtStart, watching, publishing, rec>>

ApplyOp(n, op) ==
    /\ Inbound(n, op)
    /\ UNCHANGED applied

\* --------------------------------------------------------------- Next
Next ==
    \/ \E n \in Nodes : Start(n)
    \/ \E n \in Nodes : seedKeysScan(n)
    \/ \E n \in Nodes : seedMetadataFromKv(n)
    \/ \E n \in Nodes : Subscribe(n)
    \/ \E n \in Nodes : Stop(n)
    \/ \E n \in Nodes, k \in Keys, v \in Values : ForeignPut(n, k, v)
    \/ \E n \in Nodes, k \in Keys : ForeignDelete(n, k)
    \/ \E n \in Nodes, k \in Keys, v \in Values : localPut(n, k, v)
    \/ \E n \in Nodes, k \in Keys : localDelete(n, k)
    \/ \E n \in Nodes : \E op \in inflight[n] : localResume(n, op)
    \/ \E n \in Nodes : WatchEvent(n)
    \/ \E n \in Nodes : \E op \in net : ApplyOp(n, op)

Spec == Init /\ [][Next]_vars

\* ------------------------------------------ the transport fails a request
\* the operation the watch loop mints for an event without KV-Origin
watchOp(n, msg) ==
    [op |-> IF msg.del THEN "delete" ELSE "put",
     key |-> msg.key,
     value |-> IF msg.del THEN NoValue ELSE msg.data,
     ts |-> tick(clock[n]), nodeId |-> n]

\* the watch loop takes an event without KV-Origin and publishOperation
\* raises before any other callback runs (nc.publish throws on a closed or
\* draining connection): the operation is minted and its version stored,
\* nothing is published, the rejection leaves the for await loop and is
\* logged by the catch that follows the loop
WatchFail(n) ==
    /\ phase[n] = "running"
    /\ watching[n]
    /\ publishing[n] = {}
    /\ watchQ[n] # <<>>
    /\ Head(watchQ[n]).origin = NoOrigin
    /\ watchQ' = [watchQ EXCEPT ![n] = Tail(@)]
    /\ LET op == watchOp(n, Head(watchQ[n]))
       IN /\ clock' = [clock EXCEPT ![n] = tick(@)]
          /\ lastTick' = [lastTick EXCEPT ![n] = op.ts]
          /\ seenMax' = [seenMax EXCEPT ![n] = Max(@, op.ts)]
          /\ meta' = [meta EXCEPT ![n] = metadataSet(@, op.key, versionFromOp(op))]
          /\ best' = [best EXCEPT ![n] = Observed(@, op.key, versionFromOp(op))]
    /\ watching' = [watching EXCEPT ![n] = FALSE]
    /\ UNCHANGED <<kv, lastSeq, phase, seedKeys, scan, inflight, net, events, sent,
                   plain, helperCalls, kvAtStart, applied, publishing, rec>>

\* with ctx.jsCtx set publishOperation awaits jsCtx.publish: the watch loop
\* takes an event without KV-Origin, mints the operation, stores its
\* version and requests the publish; the loop is suspended at the await
\* and takes no other event until the request is answered
WatchPublish(n) ==
    /\ phase[n] = "running"
    /\ watching[n]
    /\ publishing[n] = {}
    /\ watchQ[n] # <<>>
    /\ Head(watchQ[n]).origin = NoOrigin
    /\ watchQ' = [watchQ EXCEPT ![n] = Tail(@)]
    /\ LET op == watchOp(n, Head(watchQ[n]))
       IN /\ clock' = [clock EXCEPT ![n] = tick(@)]
          /\ lastTick' = [lastTick EXCEPT ![n] = op.ts]
          /\ seenMax' = [seenMax EXCEPT ![n] = Max(@, op.ts)]
          /\ meta' = [meta EXCEPT ![n] = metadataSet(@, op.key, versionFromOp(op))]
          /\ best' = [best EXCEPT ![n] = Observed(@, op.key, versionFromOp(op))]
          /\ publishing' = [publishing EXCEPT ![n] =
                               {[op |-> op, stored |-> FALSE]}]
    /\ UNCHANGED <<kv, lastSeq, phase, seedKeys, scan, inflight, net, events, sent,
                   plain, helperCalls, kvAtStart, applied, watching, rec>>

\* the server receives the publish the loop awaits: the operation is on
\* the replication subject, its acknowledgement is on the way
PublishStored(n) ==
    /\ \E p \in publishing[n] :
          /\ ~p.stored
          /\ publishOperation(n, p.op)
          /\ publishing' = [publishing EXCEPT ![n] = {[p EXCEPT !.stored = TRUE]}]
    /\ UNCHANGED <<kv, lastSeq, watchQ, clock, meta, phase, seedKeys, scan,
                   inflight, events, best, seenMax, lastTick, plain,
                   helperCalls, kvAtStart, applied, watching, rec>>

\* the acknowledgement arrives: publishOperation returns, the loop logs the
\* change and goes on to the next event
PublishAck(n) ==
    /\ \E p \in publishing[n] : p.stored
    /\ publishing' = [publishing EXCEPT ![n] = {}]
    /\ plain' = [plain EXCEPT ![n] = @ + 1]
    /\ UNCHANGED <<kv, lastSeq, watchQ, clock, meta, phase, seedKeys, scan,
                   inflight, net, events, best, seenMax, lastTick, sent,
                   helperCalls, kvAtStart, applied, watching, rec>>

\* the awaited jsCtx.publish rejects (no response from the server, or the
\* acknowledgement of a stored publish is lost and the request times out):
\* the rejection leaves the for await loop and is logged by the catch that
\* follows the loop; what the server stored stays published
PublishReject(n) ==
    /\ publishing[n] # {}
    /\ publishing' = [publishing EXCEPT ![n] = {}]
    /\ watching' = [watching EXCEPT ![n] = FALSE]
    /\ UNCHANGED <<kv, lastSeq, watchQ, clock, meta, phase, seedKeys, scan,
                   inflight, net, events, best, seenMax, lastTick, sent, plain,
                   helperCalls, kvAtStart, applied, rec>>

\* const keys = await ctx.kv.keys(): the getMessage of the scan is rejected
\* for a sequence the stream keeps; the catch of keys() ignores it and the
\* key of that sequence is not listed
seedKeysScanCatch(n) ==
    /\ phase[n] = "listing"
    /\ getMessage(n, scan[n].seq) # {}
    /\ events < MaxEvents
    /\ events' = events + 1
    /\ LET s == keysCatch(scan[n])
       IN IF keysDone(s)
          THEN /\ phase' = [phase EXCEPT ![n] = "seeding"]
               /\ seedKeys' = [seedKeys EXCEPT ![n] = s.keySet]
               /\ scan' = [scan EXCEPT ![n] = NoScan]
          ELSE /\ scan' = [scan EXCEPT ![n] = s]
               /\ UNCHANGED <<phase, seedKeys>>
    /\ UNCHANGED <<kv, lastSeq, watchQ, clock, meta, inflight, net,
                   best, seenMax, lastTick, sent, plain, helperCalls,
                   kvAtStart, applied, watching, publishing, rec>>

\* one iteration of the loop of seedMetadataFromKv: the request of
\* get(key) is rejected, the catch of get returns null and the key, which
\* the bucket holds, is skipped
seedMetadataFromKvCatch(n) ==
    /\ phase[n] = "seeding"
    /\ seedKeys[n] # <<>>
    /\ HasEntry(n, Head(seedKeys[n]))
    /\ events < MaxEvents
    /\ events' = events + 1
    /\ seedEntry(n, Head(seedKeys[n]), {})
    /\ UNCHANGED <<kv, lastSeq, watchQ, phase, scan, inflight, net,
                   lastTick, sent, plain, helperCalls, kvAtStart, applied,
                   watching, publishing, rec>>

\* the agent of Next, whose requests are all answered and whose publishes
\* succeed at once, with requests the transport rejects: the reads of
\* seeding and the publishes of the watch loop
NextFail ==
    \/ Next
    \/ \E n \in Nodes : seedKeysScanCatch(n)
    \/ \E n \in Nodes : seedMetadataFromKvCatch(n)
    \/ \E n \in Nodes : WatchFail(n)
    \/ \E n \in Nodes : WatchPublish(n)
    \/ \E n \in Nodes : PublishStored(n)
    \/ \E n \in Nodes : PublishAck(n)
    \/ \E n \in Nodes : PublishReject(n)

SpecFail == Init /\ [][NextFail]_vars

\* ------------------------------------------- replicas fed by their peers
\* Running agents in the same state receive the operations other agents
\* published, while their watch loops handle the change events of the
\* writes; every delivery is logged.
MaxDeliveries == 3

PeerC == <<99>>
PeerCa == <<99, 97>>
PeerIds == {PeerC, PeerCa}
Timestamps == {1, 2}
OpValues == {"1", "2"}
OpsPool ==
    {[op |-> "put", key |-> "x", value |-> v, ts |-> t, nodeId |-> p] :
        v \in OpValues, t \in Timestamps, p \in PeerIds}
    \cup
    {[op |-> "delete", key |-> "x", value |-> NoValue, ts |-> t,
      nodeId |-> p] : t \in Timestamps, p \in PeerIds}

\* the message the applier publishes for op on a stream whose last_seq is seq - 1
AppliedMsg(op, seq) ==
    [key |-> op.key, del |-> (op.op = "delete"), origin |-> op.nodeId,
     lamport |-> op.ts,
     data |-> IF op.op = "delete" THEN EmptyValue ELSE op.value, seq |-> seq]

\* a started agent on an empty bucket
FreshRun ==
    /\ phase = [n \in Nodes |-> "running"]
    /\ seedKeys = [n \in Nodes |-> <<>>]
    /\ scan = [n \in Nodes |-> NoScan]
    /\ inflight = [n \in Nodes |-> {}]
    /\ events = 0
    /\ lastTick = [n \in Nodes |-> 0]
    /\ sent = [n \in Nodes |-> 0]
    /\ kvAtStart = [n \in Nodes |-> Empty]
    /\ plain = [n \in Nodes |-> 0]
    /\ helperCalls = [n \in Nodes |-> 0]
    /\ applied = [n \in Nodes |-> <<>>]
    /\ watching = [n \in Nodes |-> TRUE]
    /\ publishing = [n \in Nodes |-> {}]

\* both replicas have applied nothing yet
StartEmpty ==
    /\ kv = [n \in Nodes |-> Empty]
    /\ lastSeq = [n \in Nodes |-> 0]
    /\ watchQ = [n \in Nodes |-> <<>>]
    /\ clock = [n \in Nodes |-> 0]
    /\ meta = [n \in Nodes |-> Empty]
    /\ best = [n \in Nodes |-> Empty]
    /\ seenMax = [n \in Nodes |-> 0]

\* both replicas have applied o0 to an empty bucket; the change event of
\* that write is delivered to the watcher and not handled yet
StartAfter(o0) ==
    /\ kv = [n \in Nodes |-> Upd(Empty, o0.key, AppliedMsg(o0, 1))]
    /\ lastSeq = [n \in Nodes |-> 1]
    /\ watchQ = [n \in Nodes |-> <<AppliedMsg(o0, 1)>>]
    /\ clock = [n \in Nodes |-> o0.ts]
    /\ meta = [n \in Nodes |-> Upd(Empty, o0.key, versionFromOp(o0))]
    /\ best = [n \in Nodes |-> Upd(Empty, o0.key, versionFromOp(o0))]
    /\ seenMax = [n \in Nodes |-> o0.ts]

\* an operation on another key than those of OpsPool
OtherKeyOp ==
    [op |-> "put", key |-> "y", value |-> "1", ts |-> 1, nodeId |-> PeerC]

InitApply ==
    /\ FreshRun
    /\ rec = [n \in Nodes |-> NoReconcile]
    /\ \/ StartEmpty
       \/ \E o0 \in OpsPool \cup {OtherKeyOp} : StartAfter(o0)
    /\ \E a, b \in OpsPool : net = {a, b}

ApplyLogged(n, op) ==
    /\ Len(applied[n]) < MaxDeliveries
    /\ Inbound(n, op)
    /\ applied' = [applied EXCEPT ![n] = Append(@, op)]

\* one replica, NodeA, is fed by its peers
NextApply ==
    \/ \E op \in net : ApplyLogged(NodeA, op)
    \/ \E n \in Nodes : WatchEvent(n)

SpecApply == InitApply /\ [][NextApply]_vars

\* both replicas are fed by their peers, each in its own order
NextInbound ==
    \/ \E n \in Nodes : \E op \in net : ApplyLogged(n, op)
    \/ \E n \in Nodes : WatchEvent(n)

SpecInbound == InitApply /\ [][NextInbound]_vars

\* ------------------------------------------------------------- views
\* what get(key) shows of a site's entry: value or tombstone, origin, timestamp
EntryView(n, key) ==
    IF HasEntry(n, key)
    THEN {[value |-> get(n, key).value, isTombstone |-> get(n, key).isTombstone,
           origin |-> get(n, key).origin, ts |-> get(n, key).ts]}
    ELSE {}

MetaView(n, key) == IF key \in DOMAIN meta[n] THEN {meta[n][key]} ELSE {}

SameState(n1, n2, key) ==
    /\ EntryView(n1, key) = EntryView(n2, key)
    /\ MetaView(n1, key) = MetaView(n2, key)

SameRank(a, b) == a.ts = b.ts /\ a.nodeId = b.nodeId

\* s without the later occurrences of its elements
RECURSIVE KeepFirstFrom(_, _)
KeepFirstFrom(s, seen) ==
    IF s = <<>> THEN <<>>
    ELSE IF Head(s) \in seen THEN KeepFirstFrom(Tail(s), seen)
    ELSE <<Head(s)>> \o KeepFirstFrom(Tail(s), seen \cup {Head(s)})
KeepFirst(s) == KeepFirstFrom(s, {})

\* a > b lexicographically, by the first position where they differ
LexAfter(a, b) ==
    \E i \in 1..Len(a) :
        /\ \A j \in 1..(i - 1) : j <= Len(b) /\ a[j] = b[j]
        /\ (i > Len(b) \/ a[i] > b[i])

\* ------------------------------------- reconcile.ts: periodic reconciliation
\* Each agent reconciles its bucket (local) with the bucket of the other
\* site (peer). rec[n] holds the interval timer, the cycles that are
\* running, each suspended at one of its awaits, and what the cycles did.
\* timer callbacks over both agents; the history counters of rec stop at it
MaxFires == 2

Count(c) == IF c < MaxFires THEN c + 1 ELSE c

\* the site behind cfg.peerNatsUrl
Peer(n) == CHOOSE o \in Nodes : o # n

RemoveAt(s, i) == SubSeq(s, 1, i - 1) \o SubSeq(s, i + 1, Len(s))

\* new Set([...localKeys, ...peerKeys]) in iteration order
allKeys(localKeys, peerKeys) ==
    localKeys \o
    SelectSeq(peerKeys,
              LAMBDA k : \A j \in 1..Len(localKeys) : localKeys[j] # k)

\* sc.decode(localVal), sc.decode(peerVal): the argument is the KvEntry
\* object get resolved to, not bytes, and TextDecoder.decode raises a
\* TypeError; it is called only for a get that did not resolve to null
decodeRaises(val) == val # {}

\* a reconcileOnce call that has not connected yet
NewCycle ==
    [pc |-> "open", scan |-> NoScan, localKeys |-> <<>>, todo |-> <<>>,
     got |-> {}, lview |-> {}, pview |-> {}]

\* the record of the agent after cycle i became c: a cycle whose loop over
\* allKeys is done logs its completion, closes its connections and is over
AfterStep(r, i, c) ==
    IF c.pc = "loop" /\ c.todo = <<>>
    THEN [r EXCEPT !.cycles = RemoveAt(@, i)]
    ELSE [r EXCEPT !.cycles[i] = c]

\* the record of the agent after cycle i raised: finally closes both
\* connections, the catch of the timer callback logs the error
Rejected(r, i) ==
    [r EXCEPT !.cycles = RemoveAt(@, i),
              !.failed = Count(@),
              !.firesAtFail = r.fires]

\* startPeriodicReconciliation(cfg): setInterval
startPeriodicReconciliation(n) ==
    /\ phase[n] = "running"
    /\ ~rec[n].timer
    /\ rec' = [rec EXCEPT ![n].timer = TRUE]
    /\ UNCHANGED <<kv, lastSeq, watchQ, clock, meta, phase, seedKeys, scan,
                   inflight, net, events, best, seenMax, lastTick, sent, plain,
                   helperCalls, kvAtStart, applied, watching,
                   publishing>>

\* the interval elapses: the callback calls reconcileOnce(cfg)
TimerFire(n) ==
    /\ rec[n].timer
    /\ rec[NodeA].fires + rec[NodeB].fires < MaxFires
    /\ rec' = [rec EXCEPT ![n].cycles = Append(@, NewCycle),
                          ![n].fires = @ + 1]
    /\ UNCHANGED <<kv, lastSeq, watchQ, clock, meta, phase, seedKeys, scan,
                   inflight, net, events, best, seenMax, lastTick, sent, plain,
                   helperCalls, kvAtStart, applied, watching,
                   publishing>>

\* the interval elapses when it is longer than a cycle takes: the callback
\* finds no cycle of the agent running
TimerTick(n) ==
    /\ rec[n].timer
    /\ rec[n].cycles = <<>>
    /\ rec' = [rec EXCEPT ![n].cycles = <<NewCycle>>,
                          ![n].fires = Count(@)]
    /\ UNCHANGED <<kv, lastSeq, watchQ, clock, meta, phase, seedKeys, scan,
                   inflight, net, events, best, seenMax, lastTick, sent, plain,
                   helperCalls, kvAtStart, applied, watching,
                   publishing>>

\* reconcileOnce up to the first request that reads a bucket: both
\* connections, both createKvBucket, and streams.info of localKv.keys()
\* resolves; with an empty local stream peerKv.keys() is called next
reconcileOnce(n, i) ==
    /\ i \in 1..Len(rec[n].cycles)
    /\ rec[n].cycles[i].pc = "open"
    /\ LET c == rec[n].cycles[i]
           s == keysInfo(n)
           c2 == IF keysDone(s) THEN [c EXCEPT !.pc = "peerInfo"]
                 ELSE [c EXCEPT !.pc = "localKeys", !.scan = s]
       IN rec' = [rec EXCEPT ![n].cycles[i] = c2]
    /\ UNCHANGED <<kv, lastSeq, watchQ, clock, meta, phase, seedKeys, scan,
                   inflight, net, events, best, seenMax, lastTick, sent, plain,
                   helperCalls, kvAtStart, applied, watching,
                   publishing>>

\* the cycle c after an iteration of localKv.keys() left its scan as s
LocalScanned(c, s) ==
    IF keysDone(s)
    THEN [c EXCEPT !.pc = "peerInfo", !.localKeys = s.keySet, !.scan = NoScan]
    ELSE [c EXCEPT !.scan = s]

\* the cycle c after an iteration of peerKv.keys() left its scan as s
PeerScanned(c, s) ==
    IF keysDone(s)
    THEN [c EXCEPT !.pc = "loop", !.todo = allKeys(c.localKeys, s.keySet),
                   !.scan = NoScan]
    ELSE [c EXCEPT !.scan = s]

\* const localKeys = await localKv.keys(): the next getMessage of the scan
\* of the local stream; after the last one peerKv.keys() is called
reconcileLocalKeys(n, i) ==
    /\ i \in 1..Len(rec[n].cycles)
    /\ rec[n].cycles[i].pc = "localKeys"
    /\ rec' = [rec EXCEPT ![n].cycles[i] = LocalScanned(@, keys(n, @.scan))]
    /\ UNCHANGED <<kv, lastSeq, watchQ, clock, meta, phase, seedKeys, scan,
                   inflight, net, events, best, seenMax, lastTick, sent, plain,
                   helperCalls, kvAtStart, applied, watching,
                   publishing>>

\* the getMessage of the scan of the local stream is rejected for a
\* sequence the stream keeps: keys() skips it and goes on
reconcileLocalKeysCatch(n, i) ==
    /\ i \in 1..Len(rec[n].cycles)
    /\ rec[n].cycles[i].pc = "localKeys"
    /\ getMessage(n, rec[n].cycles[i].scan.seq) # {}
    /\ events < MaxEvents
    /\ events' = events + 1
    /\ rec' = [rec EXCEPT ![n].cycles[i] = LocalScanned(@, keysCatch(@.scan))]
    /\ UNCHANGED <<kv, lastSeq, watchQ, clock, meta, phase, seedKeys, scan,
                   inflight, net, best, seenMax, lastTick, sent, plain,
                   helperCalls, kvAtStart, applied, watching, publishing>>

\* const peerKeys = await peerKv.keys(): streams.info of the peer stream
\* resolves; with an empty peer stream the loop over allKeys begins
reconcilePeerInfo(n, i) ==
    /\ i \in 1..Len(rec[n].cycles)
    /\ rec[n].cycles[i].pc = "peerInfo"
    /\ LET c == rec[n].cycles[i]
           s == keysInfo(Peer(n))
           c2 == IF keysDone(s)
                 THEN [c EXCEPT !.pc = "loop",
                                !.todo = allKeys(c.localKeys, <<>>)]
                 ELSE [c EXCEPT !.pc = "peerKeys", !.scan = s]
       IN rec' = [rec EXCEPT ![n] = AfterStep(@, i, c2)]
    /\ UNCHANGED <<kv, lastSeq, watchQ, clock, meta, phase, seedKeys, scan,
                   inflight, net, events, best, seenMax, lastTick, sent, plain,
                   helperCalls, kvAtStart, applied, watching,
                   publishing>>

\* the next getMessage of the scan of the peer stream; after the last one
\* allKeys is built and the loop over it begins
reconcilePeerKeys(n, i) ==
    /\ i \in 1..Len(rec[n].cycles)
    /\ rec[n].cycles[i].pc = "peerKeys"
    /\ LET c == rec[n].cycles[i]
       IN rec' = [rec EXCEPT ![n] =
                     AfterStep(@, i, PeerScanned(c, keys(Peer(n), c.scan)))]
    /\ UNCHANGED <<kv, lastSeq, watchQ, clock, meta, phase, seedKeys, scan,
                   inflight, net, events, best, seenMax, lastTick, sent, plain,
                   helperCalls, kvAtStart, applied, watching,
                   publishing>>

\* the getMessage of the scan of the peer stream is rejected for a
\* sequence the stream keeps: keys() skips it and goes on
reconcilePeerKeysCatch(n, i) ==
    /\ i \in 1..Len(rec[n].cycles)
    /\ rec[n].cycles[i].pc = "peerKeys"
    /\ getMessage(Peer(n), rec[n].cycles[i].scan.seq) # {}
    /\ events < MaxEvents
    /\ events' = events + 1
    /\ LET c == rec[n].cycles[i]
       IN rec' = [rec EXCEPT ![n] =
                     AfterStep(@, i, PeerScanned(c, keysCatch(c.scan)))]
    /\ UNCHANGED <<kv, lastSeq, watchQ, clock, meta, phase, seedKeys, scan,
                   inflight, net, best, seenMax, lastTick, sent, plain,
                   helperCalls, kvAtStart, applied, watching, publishing>>

\* the record of the agent after one of the two gets of reconcileKey, of
\* cycle i, resolved to view ({}: null). When both have, the
\* pseudo-operations are built: sc.decode raises for a get that did not
\* resolve to null, before any put is reached; with null from both gets
\* reconcileKey returns and the loop goes on
KeyGot(r, i, side, view) ==
    LET c == r.cycles[i]
        c1 == [c EXCEPT !.got = @ \cup {side},
                        !.lview = IF side = "local" THEN view ELSE @,
                        !.pview = IF side = "peer" THEN view ELSE @]
        h == [key |-> Head(c.todo), lview |-> c1.lview, pview |-> c1.pview]
        next == [c1 EXCEPT !.todo = Tail(@), !.got = {}, !.lview = {},
                           !.pview = {}]
    IN IF c1.got # {"local", "peer"}
       THEN [r EXCEPT !.cycles[i] = c1]
       ELSE IF decodeRaises(c1.lview) \/ decodeRaises(c1.pview)
       THEN [Rejected(r, i) EXCEPT !.handled = Count(@), !.lastHandled = {h}]
       ELSE [AfterStep(r, i, next) EXCEPT
                !.handled = Count(@), !.lastHandled = {h}]

\* a reconcileKey that takes what get resolved to for bytes and writes the
\* key to the local site
reconcileKey_writes(n, i, side) ==
    /\ i \in 1..Len(rec[n].cycles)
    /\ rec[n].cycles[i].pc = "loop"
    /\ rec[n].cycles[i].todo # <<>>
    /\ side \notin rec[n].cycles[i].got
    /\ LET c == rec[n].cycles[i]
           key == Head(c.todo)
           view == EntryView(IF side = "local" THEN n ELSE Peer(n), key)
           c1 == [c EXCEPT !.got = @ \cup {side},
                           !.lview = IF side = "local" THEN view ELSE @,
                           !.pview = IF side = "peer" THEN view ELSE @]
           h == [key |-> key, lview |-> c1.lview, pview |-> c1.pview]
           next == [c1 EXCEPT !.todo = Tail(@), !.got = {}, !.lview = {},
                              !.pview = {}]
       IN IF c1.got # {"local", "peer"}
          THEN /\ rec' = [rec EXCEPT ![n].cycles[i] = c1]
               /\ UNCHANGED <<kv, lastSeq, watchQ>>
          ELSE /\ rec' = [rec EXCEPT ![n] =
                             [AfterStep(@, i, next) EXCEPT
                                 !.handled = Count(@), !.lastHandled = {h}]]
               /\ put(n, key, "1", NoOrigin, NoLamport)
    /\ UNCHANGED <<clock, meta, phase, seedKeys, scan, inflight, net, events,
                   best, seenMax, lastTick, sent, plain, helperCalls,
                   kvAtStart, applied, watching,
                   publishing>>

\* reconcileKey: one of the two gets of Promise.all resolves, to the entry
\* of the site or to null when the site has none
reconcileKey(n, i, side) ==
    /\ i \in 1..Len(rec[n].cycles)
    /\ rec[n].cycles[i].pc = "loop"
    /\ rec[n].cycles[i].todo # <<>>
    /\ side \notin rec[n].cycles[i].got
    /\ LET key == Head(rec[n].cycles[i].todo)
           view == EntryView(IF side = "local" THEN n ELSE Peer(n), key)
       IN rec' = [rec EXCEPT ![n] = KeyGot(@, i, side, view)]
    /\ UNCHANGED <<kv, lastSeq, watchQ, clock, meta, phase, seedKeys, scan,
                   inflight, net, events, best, seenMax, lastTick, sent, plain,
                   helperCalls, kvAtStart, applied, watching, publishing>>

\* reconcileKey: the getMessage of one of the two gets is rejected while
\* the site holds an entry for the key: the catch of get returns null
reconcileKeyCatch(n, i, side) ==
    /\ i \in 1..Len(rec[n].cycles)
    /\ rec[n].cycles[i].pc = "loop"
    /\ rec[n].cycles[i].todo # <<>>
    /\ side \notin rec[n].cycles[i].got
    /\ EntryView(IF side = "local" THEN n ELSE Peer(n),
                 Head(rec[n].cycles[i].todo)) # {}
    /\ events < MaxEvents
    /\ events' = events + 1
    /\ rec' = [rec EXCEPT ![n] = KeyGot(@, i, side, {})]
    /\ UNCHANGED <<kv, lastSeq, watchQ, clock, meta, phase, seedKeys, scan,
                   inflight, net, best, seenMax, lastTick, sent, plain,
                   helperCalls, kvAtStart, applied, watching, publishing>>

\* a failure that escapes the callback and ends the timer
ReconcileFail_clearsTimer(n, i) ==
    /\ i \in 1..Len(rec[n].cycles)
    /\ rec[n].cycles[i].pc \in {"open", "peerInfo"}
    /\ rec' = [rec EXCEPT ![n] = [Rejected(@, i) EXCEPT !.timer = FALSE]]
    /\ UNCHANGED <<kv, lastSeq, watchQ, clock, meta, phase, seedKeys, scan,
                   inflight, net, events, best, seenMax, lastTick, sent, plain,
                   helperCalls, kvAtStart, applied, watching,
                   publishing>>

\* a request of the cycle that no catch of the facade covers rejects:
\* connectToNats, createKvBucket or the streams.info of localKv.keys() for
\* a cycle that has not listed yet, the streams.info of peerKv.keys() for
\* one that has listed the local keys. The rejection leaves reconcileOnce:
\* its finally closes the connections it opened, the callback's catch logs
ReconcileFail(n, i) ==
    /\ i \in 1..Len(rec[n].cycles)
    /\ rec[n].cycles[i].pc \in {"open", "peerInfo"}
    /\ rec' = [rec EXCEPT ![n] = Rejected(@, i)]
    /\ UNCHANGED <<kv, lastSeq, watchQ, clock, meta, phase, seedKeys, scan,
                   inflight, net, events, best, seenMax, lastTick, sent, plain,
                   helperCalls, kvAtStart, applied, watching,
                   publishing>>

\* what the buckets may hold for key "x" when reconciliation starts, and
\* the entry of key "y" that only the bucket of NodeA holds
StoredA4 ==
    [key |-> "x", del |-> FALSE, origin |-> NodeA, lamport |-> 4,
     data |-> "1", seq |-> 1]
StoredB3 ==
    [key |-> "x", del |-> FALSE, origin |-> NodeB, lamport |-> 3,
     data |-> "2", seq |-> 1]
TombB5 ==
    [key |-> "x", del |-> TRUE, origin |-> NodeB, lamport |-> 5,
     data |-> EmptyValue, seq |-> 1]
StoredY ==
    [key |-> "y", del |-> FALSE, origin |-> NodeA, lamport |-> 1,
     data |-> "1", seq |-> 2]
\* what NodeA and NodeB hold for "x": diverged puts, converged, a put
\* against a later tombstone, a tombstone on one site only, a put on one
\* site only
Holdings ==
    {<<{StoredA4}, {StoredB3}>>, <<{StoredB3}, {StoredB3}>>,
     <<{StoredA4}, {TombB5}>>, <<{}, {TombB5}>>, <<{StoredA4}, {}>>}

BucketOf(ms) == [k \in {m.key : m \in ms} |-> CHOOSE m \in ms : m.key = k]

\* the version seeding gives a stored message
StoredVersion(m) ==
    [ts |-> msgTs(m), nodeId |-> m.origin, tombstone |-> m.del]

\* two running agents that have seeded their buckets; the stream of a
\* bucket that was never written has last_seq 0
InitReconcile ==
    /\ FreshRun
    /\ \E h \in Holdings :
          /\ kv = [n \in Nodes |->
                      IF n = NodeA THEN BucketOf(h[1] \cup {StoredY})
                      ELSE BucketOf(h[2])]
          /\ lastSeq = [n \in Nodes |->
                           IF n = NodeA THEN 2
                           ELSE IF h[2] = {} THEN 0 ELSE 1]
    /\ watchQ = [n \in Nodes |-> <<>>]
    /\ meta = [n \in Nodes |-> [k \in DOMAIN kv[n] |-> StoredVersion(kv[n][k])]]
    /\ best = meta
    /\ clock = [n \in Nodes |->
                  IF HasEntry(n, "x") THEN msgTs(kv[n]["x"])
                  ELSE IF HasEntry(n, "y") THEN msgTs(kv[n]["y"]) ELSE 0]
    /\ seenMax = clock
    /\ net = {}
    /\ rec = [n \in Nodes |-> NoReconcile]

\* the steps of the reconciliation cycles when every request resolves
NextCycleSteps ==
    \/ \E n \in Nodes : startPeriodicReconciliation(n)
    \/ \E n \in Nodes : \E i \in 1..Len(rec[n].cycles) : reconcileOnce(n, i)
    \/ \E n \in Nodes : \E i \in 1..Len(rec[n].cycles) :
          reconcileLocalKeys(n, i)
    \/ \E n \in Nodes : \E i \in 1..Len(rec[n].cycles) :
          reconcilePeerInfo(n, i)
    \/ \E n \in Nodes : \E i \in 1..Len(rec[n].cycles) :
          reconcilePeerKeys(n, i)
    \/ \E n \in Nodes : \E i \in 1..Len(rec[n].cycles) :
          \E side \in {"local", "peer"} : reconcileKey(n, i, side)

\* the reconcilers of both agents, with requests the transport rejects
NextCycles ==
    \/ NextCycleSteps
    \/ \E n \in Nodes : TimerFire(n)
    \/ \E n \in Nodes : \E i \in 1..Len(rec[n].cycles) : ReconcileFail(n, i)
    \/ \E n \in Nodes : \E i \in 1..Len(rec[n].cycles) :
          reconcileLocalKeysCatch(n, i)
    \/ \E n \in Nodes : \E i \in 1..Len(rec[n].cycles) :
          reconcilePeerKeysCatch(n, i)
    \/ \E n \in Nodes : \E i \in 1..Len(rec[n].cycles) :
          \E side \in {"local", "peer"} : reconcileKeyCatch(n, i, side)

SpecCycles == InitReconcile /\ [][NextCycles]_vars

\* the reconcilers of both agents when every request resolves, and the
\* clients that write the buckets while the cycles run
NextReconcile ==
    \/ NextCycleSteps
    \/ \E n \in Nodes : TimerFire(n)
    \/ \E n \in Nodes, k \in Keys, v \in Values : ForeignPut(n, k, v)
    \/ \E n \in Nodes, k \in Keys : ForeignDelete(n, k)

SpecReconcile == InitReconcile /\ [][NextReconcile]_vars

\* the reconcilers of both agents when no request fails, the timers fire
\* for ever and the buckets are written no more; no change event and no
\* operation is left for the watch loops and the appliers to handle
NextConverge ==
    \/ NextCycleSteps
    \/ \E n \in Nodes : TimerTick(n)

\* every timer fires and every request of a cycle resolves
FairLoops ==
    \A n \in Nodes :
        /\ WF_vars(startPeriodicReconciliation(n))
        /\ WF_vars(TimerTick(n))
        /\ WF_vars(\E i \in 1..Len(rec[n].cycles) :
                      \/ reconcileOnce(n, i)
                      \/ reconcileLocalKeys(n, i)
                      \/ reconcilePeerInfo(n, i)
                      \/ reconcilePeerKeys(n, i)
                      \/ \E side \in {"local", "peer"} :
                            reconcileKey(n, i, side))

SpecConverge == InitReconcile /\ [][NextConverge]_vars /\ FairLoops

\* ------------------------------------------------------------------ C1
\* C1, for two operations a, b on one key that do not share one
\* (timestamp, nodeId) while differing in kind or value: when one replica
\* has applied a then b, the other b then a, from the same starting state,
\* and their watch loops have handled every change event, both hold the
\* same entry and the same version for the key.
C1_Commute ==
    \A a, b \in net : \A n1, n2 \in Nodes :
        (/\ a.key = b.key
         /\ SameRank(a, b) => a = b
         /\ applied[n1] = <<a, b>>
         /\ applied[n2] = <<b, a>>
         /\ watchQ[n1] = <<>>
         /\ watchQ[n2] = <<>>)
            => SameState(n1, n2, a.key)

\* ------------------------------------------------------------------ C2
\* C2: a replica to which operations were re-delivered holds, for every
\* key, the entry and the version of the replica that got each operation
\* once (at its first delivery), once the watch loops have handled every
\* change event; and an operation that was delivered does not win over the
\* stored version of its key.
C2_Idempotent ==
    /\ \A n1, n2 \in Nodes :
          (/\ KeepFirst(applied[n1]) = applied[n2]
           /\ watchQ[n1] = <<>>
           /\ watchQ[n2] = <<>>)
              => \A k \in Keys : SameState(n1, n2, k)
    /\ \A n \in Nodes : \A i \in 1..Len(applied[n]) :
          LET op == applied[n][i]
          IN /\ op.key \in DOMAIN meta[n]
             /\ ~wins(versionFromOp(op), meta[n][op.key])

\* ------------------------------------------------------------------ C4
VersionsInState ==
    {versionFromOp(op) : op \in net}
    \cup UNION {{meta[n][k] : k \in DOMAIN meta[n]} : n \in Nodes}

\* C4: on the versions of the operations in flight and of the metadata
\* stores, wins(x, y) holds exactly when x has the higher timestamp, or the
\* same timestamp and the lexicographically greater nodeId; it is false on
\* equal (timestamp, nodeId), does not depend on either tombstone flag, and
\* of two versions with distinct (timestamp, nodeId) exactly one wins;
\* {ts 5, "b"} beats {ts 5, "a"}.
C4_WinsOrder ==
    /\ \A x, y \in VersionsInState :
          /\ wins(x, y) <=> \/ x.ts > y.ts
                            \/ x.ts = y.ts /\ LexAfter(x.nodeId, y.nodeId)
          /\ SameRank(x, y) => ~wins(x, y)
          /\ \A tx, ty \in BOOLEAN :
                wins([x EXCEPT !.tombstone = tx], [y EXCEPT !.tombstone = ty])
                    = wins(x, y)
          /\ ~SameRank(x, y) => (wins(x, y) # wins(y, x))
    /\ wins([ts |-> 5, nodeId |-> NodeB, tombstone |-> FALSE],
            [ts |-> 5, nodeId |-> NodeA, tombstone |-> TRUE])
    /\ ~wins([ts |-> 5, nodeId |-> NodeA, tombstone |-> TRUE],
             [ts |-> 5, nodeId |-> NodeB, tombstone |-> FALSE])

\* the applier compared a put with a tombstone of the same timestamp and a
\* nodeId that is a proper prefix of the put's, and the put won
C4_Witness ==
    \E op \in net : \E n \in Nodes :
        /\ applied[n] = <<op>>
        /\ op.op = "put"
        /\ op.nodeId = PeerCa
        /\ meta[n][op.key] = versionFromOp(op)
        /\ best[n][op.key] = versionFromOp(op)
        /\ watchQ[n] # <<>>
        /\ Head(watchQ[n]).del
        /\ Head(watchQ[n]).origin = PeerC
        /\ Head(watchQ[n]).lamport = op.ts

\* ------------------------------------------------------------------ C3
\* C3: when the highest-ranked version a site has accepted for a key is a
\* tombstone, applying an operation that does not outrank it leaves get(key)
\* a tombstone.
C3_NoResurrection ==
    [][\A n \in Nodes : \A op \in net :
          (/\ Inbound(n, op)
           /\ op.key \in DOMAIN best[n]
           /\ best[n][op.key].tombstone
           /\ ~wins(versionFromOp(op), best[n][op.key]))
              => kv'[n][op.key].del]_vars

\* ------------------------------------------------------------------ C7
\* the version the metadata store holds for a key is the highest-ranked
\* version the site has observed for it
StoreHoldsHighest ==
    \A n \in Nodes : \A k \in DOMAIN best[n] :
        k \in DOMAIN meta[n] /\ meta[n][k] = best[n][k]

\* a change event that carries KV-Origin replaces the version the store
\* holds for its key only if the event's version wins over the stored one
ProvenanceEventOnlyIfWins ==
    [][\A n \in Nodes :
          (/\ phase[n] = "running"
           /\ phase'[n] = "running"
           /\ watchQ[n] # <<>>
           /\ watchQ'[n] = Tail(watchQ[n])
           /\ Head(watchQ[n]).origin # NoOrigin
           /\ Head(watchQ[n]).key \in DOMAIN meta[n])
              => LET key == Head(watchQ[n]).key
                 IN \/ meta'[n][key] = meta[n][key]
                    \/ wins(meta'[n][key], meta[n][key])]_vars

\* C7: in every reachable state the metadata store holds, for each key, the
\* highest-ranked version the site has observed through seeding, change
\* events, helpers and inbound operations; in particular a change event
\* carrying KV-Origin replaces the stored version only if its version wins.
C7_VersionStore == []StoreHoldsHighest /\ ProvenanceEventOnlyIfWins

\* ------------------------------------------------------------------ C5
\* C5: what tick() returns to a helper or to the watch loop is greater than
\* every timestamp the clock of this process was given by seeding, the
\* watch loop or the applier, and than every value tick() returned before.
C5_MonotonicClock ==
    [][\A n \in Nodes :
          (helperCalls'[n] # helperCalls[n] \/ plain'[n] # plain[n])
              => /\ lastTick'[n] = clock'[n]
                 /\ lastTick'[n] > seenMax[n]
                 /\ lastTick'[n] > lastTick[n]]_vars

\* a site whose first tick came after it observed a peer's timestamp
C5_Witness ==
    \E n \in Nodes :
        /\ sent[n] = 0
        /\ plain[n] = 0
        /\ helperCalls[n] = 1
        /\ lastTick[n] = 2
        /\ \E op \in inflight[n] : op.ts = 2

\* ------------------------------------------------------------------ C8
\* the watch loop takes the event at the head of its queue
Consumes(n) ==
    /\ phase[n] = "running"
    /\ phase'[n] = "running"
    /\ watchQ[n] # <<>>
    /\ watchQ'[n] = Tail(watchQ[n])

\* C8: handling a change event that carries KV-Origin publishes nothing;
\* every operation a site publishes comes from one change event without
\* KV-Origin or from one helper call, so the operations it has published
\* are at most those events plus those calls.
C8_NoRebroadcast ==
    [][\A n \in Nodes :
          /\ (Consumes(n) /\ Head(watchQ[n]).origin # NoOrigin)
                => (net' = net /\ sent' = sent)
          /\ sent'[n] # sent[n]
                => /\ sent'[n] = sent[n] + 1
                   /\ \/ Consumes(n) /\ Head(watchQ[n]).origin = NoOrigin
                      \/ \E op \in inflight[n] : inflight'[n] = inflight[n] \ {op}
          /\ sent'[n] <= plain'[n] + helperCalls'[n]]_vars

\* a site applied a peer's operation and its watch loop has handled the
\* change event of that write without publishing
C8_Witness ==
    \E n \in Nodes : \E k \in DOMAIN kv[n] :
        /\ events = 1
        /\ phase[n] = "running"
        /\ kv[n][k].origin \notin {NoOrigin, n}
        /\ lastSeq[n] = 1
        /\ kvAtStart[n] = Empty
        /\ watchQ[n] = <<>>
        /\ sent[n] = 0

\* ------------------------------------------------------------------ C9
\* the version get(key) reconstructs, as seedMetadataFromKv builds it
SeededVersion(n, key) ==
    [ts |-> get(n, key).ts,
     nodeId |-> get(n, key).origin,
     tombstone |-> get(n, key).isTombstone]

\* C9, for the entries no client overwrites while the agent starts: when
\* the watch loop starts, every entry that was in the bucket when the
\* process started and is still the entry of its key has its version in
\* the metadata store and its timestamp observed by the clock;
\* nothing is published during seeding, and no entry that existed before
\* the process started is ever delivered to the watch loop.
C9_Seeding ==
    [][\A n \in Nodes :
          /\ (phase[n] = "seeding" /\ phase'[n] = "running")
                => /\ \A k \in DOMAIN kvAtStart[n] :
                         kv[n][k] = kvAtStart[n][k]
                            => /\ k \in DOMAIN meta[n]
                               /\ meta[n][k] = SeededVersion(n, k)
                               /\ clock[n] >= get(n, k).ts
                   /\ watchQ'[n] = <<>>
          /\ phase[n] \in {"listing", "seeding"} => sent'[n] = sent[n]
          /\ \A i \in 1..Len(watchQ'[n]) : \A k \in DOMAIN kvAtStart'[n] :
                watchQ'[n][i] # kvAtStart'[n][k]]_vars

\* ----------------------------------------------------------------- C10
\* C10: a helper call mints an operation with a fresh tick and this site's
\* nodeId and writes the bucket with that provenance; when it completes,
\* the metadata store holds that version for the key and exactly that one
\* operation is published.
C10_LocalWrite ==
    [][\A n \in Nodes :
          /\ \A op \in inflight'[n] \ inflight[n] :
                /\ op.ts = lastTick'[n]
                /\ op.ts = clock'[n]
                /\ op.ts > seenMax[n]
                /\ op.nodeId = n
                /\ helperCalls'[n] = helperCalls[n] + 1
                /\ kv'[n][op.key] =
                      [key |-> op.key, del |-> (op.op = "delete"), origin |-> n,
                       lamport |-> op.ts,
                       data |-> IF op.op = "delete" THEN EmptyValue
                                ELSE op.value,
                       seq |-> lastSeq[n] + 1]
          /\ phase'[n] # "down"
                => \A op \in inflight[n] \ inflight'[n] :
                      /\ meta'[n][op.key] =
                            [ts |-> op.ts, nodeId |-> n,
                             tombstone |-> (op.op = "delete")]
                      /\ net' = net \cup {op}
                      /\ sent'[n] = sent[n] + 1
                      /\ \A m \in Nodes \ {n} : sent'[m] = sent[m]]_vars

\* a completed localDelete and a completed localPut
C10_Witness ==
    \E n \in Nodes : \E d, p \in net :
        /\ d.nodeId = n /\ d.op = "delete"
        /\ p.nodeId = n /\ p.op = "put"
        /\ helperCalls[n] = 2
        /\ sent[n] = 2
        /\ inflight[n] = {}
        /\ d.key # p.key
        /\ kv[n][d.key].del /\ kv[n][d.key].lamport = d.ts
        /\ kv[n][p.key].origin = n /\ kv[n][p.key].lamport = p.ts
        /\ meta[n][d.key] = versionFromOp(d)
        /\ meta[n][p.key] = versionFromOp(p)

\* ------------------------------------------------------------------ C11
\* what a site holds for the keys other than key is the same before and
\* after the step
OtherKeysUnchanged(n, key) ==
    /\ DOMAIN kv'[n] \ {key} = DOMAIN kv[n] \ {key}
    /\ \A k \in DOMAIN kv[n] \ {key} : kv'[n][k] = kv[n][k]
    /\ DOMAIN meta'[n] \ {key} = DOMAIN meta[n] \ {key}
    /\ \A k \in DOMAIN meta[n] \ {key} : meta'[n][k] = meta[n][k]

\* C11: applying an inbound operation writes it to the local bucket (put
\* or delete by its kind, stamped with op.nodeId and op.ts) and sets the
\* key's stored version to the operation's version exactly when that
\* version wins over the stored one (no stored version ranks lowest);
\* otherwise the entry and the stored version of the key stay as they
\* were. The entries and versions of all other keys stay as they were,
\* and of the rest of the agent only the clock may move, forward.
C11_ApplierFrame ==
    [][\A n \in Nodes :
          applied'[n] # applied[n] =>
              LET op == applied'[n][Len(applied'[n])]
                  candidate == versionFromOp(op)
                  won == \/ op.key \notin DOMAIN meta[n]
                         \/ wins(candidate, meta[n][op.key])
              IN /\ won =>
                      /\ op.key \in DOMAIN kv'[n]
                      /\ kv'[n][op.key].del = (op.op = "delete")
                      /\ kv'[n][op.key].origin = op.nodeId
                      /\ kv'[n][op.key].lamport = op.ts
                      /\ op.op = "put" => kv'[n][op.key].data = op.value
                      /\ kv'[n][op.key].seq = lastSeq[n] + 1
                      /\ lastSeq'[n] = lastSeq[n] + 1
                      /\ op.key \in DOMAIN meta'[n]
                      /\ meta'[n][op.key] = candidate
                 /\ ~won =>
                      /\ kv'[n] = kv[n]
                      /\ lastSeq'[n] = lastSeq[n]
                      /\ meta'[n] = meta[n]
                 /\ OtherKeysUnchanged(n, op.key)
                 /\ clock'[n] >= clock[n]
                 /\ \A o \in Nodes \ {n} :
                      /\ kv'[o] = kv[o] /\ meta'[o] = meta[o]
                      /\ clock'[o] = clock[o]
                 /\ UNCHANGED <<phase, seedKeys, scan, inflight, net, sent>>]_vars

\* a replica that holds an entry of key "y" has been delivered two
\* operations on "x": the first was written, the second lost and was
\* discarded
C11_Witness ==
    \E n \in Nodes :
        /\ Len(applied[n]) = 2
        /\ applied[n][1] # applied[n][2]
        /\ wins(versionFromOp(applied[n][1]), versionFromOp(applied[n][2]))
        /\ "y" \in DOMAIN kv[n]
        /\ kv[n]["y"].seq = 1
        /\ lastSeq[n] = 2
        /\ kv[n]["x"].seq = 2
        /\ kv[n]["x"].origin = applied[n][1].nodeId
        /\ meta[n]["x"] = versionFromOp(applied[n][1])

\* ------------------------------------------------------------------ C15
\* C15: no lost update in the metadata store: whichever of the watch loop,
\* the local-write helpers and the applier installs a version for a key,
\* and however their steps interleave around the awaits, a running agent
\* never replaces the stored version of a key by one the stored version
\* wins over.
C15_NoLostUpdate ==
    [][\A n \in Nodes : \A k \in Keys :
          (/\ phase[n] = "running" /\ phase'[n] = "running"
           /\ k \in DOMAIN meta[n] /\ k \in DOMAIN meta'[n])
          => ~wins(meta[n][k], meta'[n][k])]_vars

\* ------------------------------------------------------------------ C16
\* seedMetadataFromKv visits a key that has an entry
SeedsEntry(n) ==
    /\ phase[n] = "seeding"
    /\ phase'[n] = "seeding"
    /\ seedKeys[n] # <<>>
    /\ seedKeys'[n] = Tail(seedKeys[n])
    /\ HasEntry(n, Head(seedKeys[n]))

\* C16 as stated: right after the clock observes a timestamp t (of an
\* inbound operation, of a change event that carries KV-Origin, of an entry
\* met while seeding), the clock's value is strictly greater than t.
C16_ObserveStrict ==
    [][\A n \in Nodes :
          /\ \A op \in net : Inbound(n, op) => clock'[n] > op.ts
          /\ (Consumes(n) /\ Head(watchQ[n]).origin # NoOrigin)
                => clock'[n] > msgTs(Head(watchQ[n]))
          /\ SeedsEntry(n) => clock'[n] > get(n, Head(seedKeys[n])).ts]_vars

\* C16: right after the clock observes a timestamp t, the clock's value is
\* at least t and not below what it was, so that the next tick() is
\* strictly greater than t.
C16_ObserveAtLeast ==
    [][\A n \in Nodes :
          /\ \A op \in net :
                Inbound(n, op) => /\ clock'[n] >= op.ts
                                  /\ clock'[n] >= clock[n]
                                  /\ tick(clock'[n]) > op.ts
          /\ (Consumes(n) /\ Head(watchQ[n]).origin # NoOrigin)
                => /\ clock'[n] >= msgTs(Head(watchQ[n]))
                   /\ clock'[n] >= clock[n]
                   /\ tick(clock'[n]) > msgTs(Head(watchQ[n]))
          /\ SeedsEntry(n)
                => /\ clock'[n] >= get(n, Head(seedKeys[n])).ts
                   /\ clock'[n] >= clock[n]
                   /\ tick(clock'[n]) > get(n, Head(seedKeys[n])).ts]_vars

\* a site that never ticked has observed the timestamp of a peer's
\* operation, of its change event and, after a restart, of its entry: the
\* clock equals that timestamp
C16_Witness ==
    \E n \in Nodes : \E k \in DOMAIN kvAtStart[n] :
        /\ phase[n] = "running"
        /\ kvAtStart[n][k].origin \notin {NoOrigin, n}
        /\ kv[n] = kvAtStart[n]
        /\ lastTick[n] = 0
        /\ seenMax[n] = kvAtStart[n][k].lamport
        /\ clock[n] = kvAtStart[n][k].lamport

C17_LoopSurvives ==
    \A n \in Nodes :
        (phase[n] = "running" /\ watchQ[n] # <<>>) => watching[n]

\* ------------------------------------------------------------------ C14
\* C14: at no time are two reconciliation cycles of the same agent
\* running: a timer callback that finds a cycle still running starts none.
C14_NoOverlap ==
    \A n \in Nodes : Len(rec[n].cycles) <= 1

\* ------------------------------------------------------------------ C12
\* the entry of a site after the step, as get(key) shows it less its
\* provenance: value or tombstone
HeldAfter(n, key) ==
    IF key \in DOMAIN kv'[n]
    THEN {[value |-> IF kv'[n][key].del THEN NoValue ELSE kv'[n][key].data,
           isTombstone |-> kv'[n][key].del]}
    ELSE {}

\* the version an entry's stored provenance gives
ProvenanceVersion(e) ==
    [ts |-> e.ts, nodeId |-> e.origin, tombstone |-> e.isTombstone]

\* the entry that wins between a local and a peer entry by their stored
\* provenance
WinnerByProvenance(l, p) ==
    IF wins(ProvenanceVersion(p), ProvenanceVersion(l)) THEN p ELSE l

\* C12: when both sites hold an entry for a key, the reconciler decides the
\* winner with wins on the versions the stored provenance gives (not on
\* timestamps taken while reconciling), and once the cycle is through with
\* the key both sites hold the winning entry's value or tombstone.
C12_BothPresent ==
    [][\A n \in Nodes :
          rec'[n].handled # rec[n].handled =>
              \A h \in rec'[n].lastHandled :
                  \A l \in h.lview : \A p \in h.pview :
                      LET w == WinnerByProvenance(l, p)
                          held == {[value |-> w.value,
                                    isTombstone |-> w.isTombstone]}
                      IN /\ HeldAfter(n, h.key) = held
                         /\ HeldAfter(Peer(n), h.key) = held]_vars

\* ------------------------------------------------------------------ C13
\* C13: when only one site holds an entry for a key, then once the cycle is
\* through with the key the other site holds that entry as it is: same
\* value, same tombstone flag, same origin and timestamp.
C13_OneSide ==
    [][\A n \in Nodes :
          rec'[n].handled # rec[n].handled =>
              \A h \in rec'[n].lastHandled :
                  (h.lview = {} \/ h.pview = {}) =>
                      \A e \in h.lview \cup h.pview :
                          LET site == IF h.lview = {} THEN n ELSE Peer(n)
                          IN /\ h.key \in DOMAIN kv'[site]
                             /\ kv'[site][h.key].del = e.isTombstone
                             /\ ~e.isTombstone =>
                                   kv'[site][h.key].data = e.value
                             /\ kv'[site][h.key].origin = e.origin
                             /\ msgTs(kv'[site][h.key]) = e.ts]_vars

\* ------------------------------------------------------------------ C20
\* C20: a cycle that handles a key for which both sites hold the same
\* entry writes neither site, delivers no change event and lets nothing be
\* broadcast; and no step of a reconciliation cycle writes a site that
\* holds the winner already (no step of a cycle writes a site at all).
C20_ConvergedNoOp ==
    [][\A n \in Nodes :
          /\ rec'[n].handled # rec[n].handled =>
                \A h \in rec'[n].lastHandled :
                    (h.lview # {} /\ h.lview = h.pview) =>
                        UNCHANGED <<kv, lastSeq, watchQ, net, sent>>
          /\ (rec'[n] # rec[n] /\ rec'[n].timer) =>
                UNCHANGED <<kv, lastSeq, watchQ>>]_vars

\* a cycle has handled key "x", which both sites hold with the same value
\* and provenance: the buckets, the queues of the watch loops and the
\* replication subject are as they were
C20_Witness ==
    \E n \in Nodes :
        /\ rec[n].handled = 1
        /\ \E h \in rec[n].lastHandled :
              /\ h.key = "x"
              /\ h.lview # {}
              /\ h.lview = h.pview
        /\ kv[NodeA]["x"] = StoredB3
        /\ kv[NodeB]["x"] = StoredB3
        /\ lastSeq[NodeA] = 2 /\ lastSeq[NodeB] = 1
        /\ watchQ[NodeA] = <<>> /\ watchQ[NodeB] = <<>>
        /\ net = {}
        /\ events = 0

\* ------------------------------------------------------------------ C18
\* C18: when a step of a reconciliation cycle raises, that cycle is over
\* and the keys it had left are not processed by it; the error stays in
\* the timer callback: the agent, its watch loop and its other cycles go
\* on, the buckets keep what they held, and the timer stays armed, so that
\* the next tick starts a new cycle.
C18_CycleFailure ==
    [][\A n \in Nodes :
          rec'[n].failed # rec[n].failed =>
              /\ rec'[n].failed = rec[n].failed + 1
              /\ \E i \in 1..Len(rec[n].cycles) :
                    rec'[n].cycles = RemoveAt(rec[n].cycles, i)
              /\ rec'[n].timer
              /\ rec'[n].fires = rec[n].fires
              /\ rec'[Peer(n)] = rec[Peer(n)]
              /\ UNCHANGED <<kv, lastSeq, watchQ, meta, clock, phase,
                             watching, net>>]_vars

\* the first cycle of NodeA raised while it handled key "x", its first key,
\* with key "y" not visited; the next timer tick came after the failure and
\* started a new cycle, which is listing the keys
C18_Witness ==
    /\ rec[NodeA].failed = 1
    /\ rec[NodeA].firesAtFail = 1
    /\ rec[NodeA].fires = 2
    /\ rec[NodeA].handled = 1
    /\ \E h \in rec[NodeA].lastHandled : h.key = "x" /\ h.lview # {}
    /\ Len(rec[NodeA].cycles) = 1
    /\ rec[NodeA].cycles[1].pc = "localKeys"
    /\ rec[NodeB].fires = 0
    /\ kv[NodeA]["y"] = StoredY
    /\ kv[NodeA]["x"] = StoredA4
    /\ phase[NodeA] = "running" /\ watching[NodeA]

\* ------------------------------------------------------------------- C6
\* what a site holds for a key: value or tombstone
Held(n, key) ==
    IF HasEntry(n, key)
    THEN {[value |-> get(n, key).value,
           isTombstone |-> get(n, key).isTombstone]}
    ELSE {}

Converged == \A k \in Keys : Held(NodeA, k) = Held(NodeB, k)

\* C6: with finitely many writes, operations lost on the replication
\* subject, and the timers, the cycles, the watch loops and the appliers
\* taking their steps, both sites eventually hold the same entry for every
\* key, and keep it.
C6_EventualConvergence == <>[]Converged

\* ------------------------------------------------------------------ C21
\* C21: on a running agent with no change event waiting for its watch loop
\* and no helper call suspended, the version the metadata store holds for
\* a key is the version get(key) reconstructs from the entry's persisted
\* provenance (timestamp, origin, tombstone flag), which is the version
\* seeding would store for the key after a restart.
C21_ProvenanceConsistent ==
    \A n \in Nodes :
        (phase[n] = "running" /\ watchQ[n] = <<>> /\ inflight[n] = {})
            => \A k \in DOMAIN kv[n] \cap DOMAIN meta[n] :
                  meta[n][k] = SeededVersion(n, k)

====
